---- MODULE Spec2Model ----
(***************************************************************************)
(* Model of the routing-protocol energy simulators of YangtzeSense:        *)
(*   src/src/simulation/routingAlgorithms/leach.ts    (simulateLEACH)      *)
(*   src/src/simulation/routingAlgorithms/pegasis.ts  (simulatePEGASIS)    *)
(*                                                                         *)
(* One behaviour of Spec is one call of one simulator on one node list and *)
(* one config.  Every loop iteration of the source that deducts energy is  *)
(* one step, so the intermediate values of the energy ledger are states.   *)
(* A behaviour of ComparisonSpec is a sequence of calls of the two         *)
(* simulators on one node list, as runComparison of                        *)
(* src/src/pages/RoutingSimulator.tsx makes them.                          *)
(* A behaviour of PlaybackSpec is the RoutingSimulator page in use: the    *)
(* handlers startSimulation, pauseSimulation and resetSimulation, the      *)
(* algorithm select and the rounds input, the effect that sets the timeout *)
(* and the timeout itself; startSimulation runs the selected simulator.    *)
(* An event handler, the render after it and the effect after the render   *)
(* are steps that nothing else interleaves with.                           *)
(*                                                                         *)
(* Arithmetic is fixed point.  Energies are held in units of 1/50 of the   *)
(* config's energy unit, so that the source's factors 0.1, 0.2, 0.5 and    *)
(* 0.8 are integers: the ledger starts at 50 * initialEnergy.  Data sizes  *)
(* are held in units of 1/10 bit.  Distances are whole kilometres (floor   *)
(* of the square root).  Latitudes are 0 or 60 degrees, whose cosines are  *)
(* 1 and 1/2.  Math.random() is a draw, in hundredths, from RandomDraws.   *)
(***************************************************************************)
EXTENDS Integers, Sequences, FiniteSets, TLC

\* ------------------------------------------------------------------ bounds
MaxNodes == 3
MaxRounds == 2

\* ------------------------------------------------------------------ inputs
IdNames == <<"n1", "n2", "n3", "n4", "n5", "n6">>

\* the value of an absent id: undefined (pegasis.ts:83) or '' (leach.ts:109)
NoId == "undefined"

NodeTypes == {"base", "sensor"}

Positions == { [lat |-> 0, lng |-> 0], [lat |-> 60, lng |-> 20] }

\* Math.random() < 1, in hundredths
RandomDraws == {0, 50, 99}

\* the types of a list of n nodes: at most one base station, at any place
TypeSeqs(n) ==
  { t \in [1..n -> NodeTypes] : Cardinality({k \in 1..n : t[k] = "base"}) <= 1 }

\* node lists with unique ids
NodeLists ==
  UNION { { [k \in 1..n |-> [id |-> IdNames[k], type |-> t[k], position |-> p[k]]]
            : t \in TypeSeqs(n), p \in [1..n -> Positions] }
          : n \in 0..MaxNodes }

\* the energy-cost constants: the nominal ones, and each of them in turn
\* at a value that is not positive
CostConstants ==
  { [transmitEnergy |-> 1, receiveEnergy |-> 1, dataSize |-> 1],
    [transmitEnergy |-> 0, receiveEnergy |-> 1, dataSize |-> 1],
    [transmitEnergy |-> 0 - 1, receiveEnergy |-> 1, dataSize |-> 1],
    [transmitEnergy |-> 1, receiveEnergy |-> 0, dataSize |-> 1],
    [transmitEnergy |-> 1, receiveEnergy |-> 1, dataSize |-> 0] }

NominalCost == [transmitEnergy |-> 1, receiveEnergy |-> 1, dataSize |-> 1]

InitialEnergies == {0, 1, 2, 3, 10000}

Thresholds == {0, 20, 100}

Methods == {"roundRobin", "energyBased"}

MkConfig(r, e, c, p, m) ==
  [rounds |-> r, initialEnergy |-> e, transmitEnergy |-> c.transmitEnergy,
   receiveEnergy |-> c.receiveEnergy, dataSize |-> c.dataSize,
   probabilityThreshold |-> p, leaderSelectionMethod |-> m]

\* every rounds/initialEnergy pair with the nominal cost constants, and the
\* other cost constants with the longest run
RunShapes ==
  { <<r, e, NominalCost>> : r \in 0..MaxRounds, e \in InitialEnergies }
  \cup { <<MaxRounds, 2, c>> : c \in CostConstants }

LEACHConfigs == { MkConfig(s[1], s[2], s[3], p, "none") : s \in RunShapes, p \in Thresholds }

PEGASISConfigs == { MkConfig(s[1], s[2], s[3], 0, m) : s \in RunShapes, m \in Methods }

\* ------------------------------------------------------------------- state
VARIABLES
  alg,                    \* which simulator is running
  nodes,                  \* the caller's node list
  config,                 \* the config of the run
  pc,                     \* position in the simulator
  round,                  \* the loop variable of the rounds loop
  nodeEnergy,             \* the energy ledger: id -> remaining
  rounds,                 \* the rounds log
  totalEnergyConsumption,
  dataDelivered,
  networkDied,
  networkLifetime,
  chain,                  \* PEGASIS: the chain
  leader,                 \* PEGASIS: the leader of the round
  clusterHeads,           \* LEACH: the heads of the round
  clusterMembers,         \* LEACH: head id -> member ids
  energyUsage,            \* id -> energy used in the round
  roundDataTransmitted,
  i,                      \* the index of the first inner loop of the round
  j,                      \* the index of the second inner loop of the round
  result,                 \* "none", "returned" or the error thrown
  metrics,                \* the metrics of the returned result
  results,                \* the results of the caller's earlier calls
  isSimulating,           \* the page: the playback is running
  currentRound,           \* the page: the round the playback shows
  timer,                  \* the page: a timeout of the effect is pending
  phase                   \* the page: "idle", in the simulator "call", or
                          \* rendered with the "effect" still to run

vars == <<alg, nodes, config, pc, round, nodeEnergy, rounds,
          totalEnergyConsumption, dataDelivered, networkDied, networkLifetime,
          chain, leader, clusterHeads, clusterMembers, energyUsage,
          roundDataTransmitted, i, j, result, metrics, results,
          isSimulating, currentRound, timer, phase>>

EmptyMap == [x \in {} |-> 0]

NoMetrics ==
  [energyConsumption |-> 0, networkLifetime |-> 0, dataDelivered |-> 0,
   averageEnergy |-> [sum |-> 0, count |-> 0]]

\* ----------------------------------------------------------------- helpers
Range(s) == { s[k] : k \in 1..Len(s) }

RECURSIVE SumMap(_)
SumMap(f) ==
  IF DOMAIN f = {} THEN 0
  ELSE LET x == CHOOSE y \in DOMAIN f : TRUE
       IN f[x] + SumMap([y \in DOMAIN f \ {x} |-> f[y]])

\* nodes.find(n => n.id === id)
NodeById(id) == nodes[CHOOSE k \in 1..Len(nodes) : nodes[k].id = id]

HasBase == \E k \in 1..Len(nodes) : nodes[k].type = "base"

\* nodes.find(n => n.type === 'base') when there is one
BaseStation ==
  nodes[CHOOSE k \in 1..Len(nodes) :
          /\ nodes[k].type = "base"
          /\ \A l \in 1..(k - 1) : nodes[l].type # "base"]

\* the ids of the nodes whose index is in keep, in list order
RECURSIVE IdsAt(_, _)
IdsAt(keep, k) ==
  IF k > Len(nodes) THEN <<>>
  ELSE (IF k \in keep THEN <<nodes[k].id>> ELSE <<>>) \o IdsAt(keep, k + 1)

RECURSIVE SqrtIter(_, _, _)
SqrtIter(x, lo, hi) ==
  IF lo >= hi THEN lo
  ELSE LET mid == (lo + hi + 1) \div 2
       IN IF mid * mid <= x THEN SqrtIter(x, mid, hi) ELSE SqrtIter(x, lo, mid - 1)

\* twice Math.cos(lat * (Math.PI / 180)), for lat 0 and lat 60
Cos2(lat) == IF lat = 60 THEN 1 ELSE 2

calculateDistance(pos1, pos2) ==
  LET latDiff == (pos1.lat - pos2.lat) * 111
      lngDiff2 == (pos1.lng - pos2.lng) * 111 * Cos2(pos1.lat)
  IN SqrtIter(4 * latDiff * latDiff + lngDiff2 * lngDiff2, 0, 30000) \div 2

\* the usage that keeps the last cost only
AddUsage_Mut(eu, id, cost) ==
  IF id \in DOMAIN eu THEN [eu EXCEPT ![id] = cost] ELSE eu @@ (id :> cost)

\* energyUsage[id] = (energyUsage[id] || 0) + cost
AddUsage(eu, id, cost) ==
  IF id \in DOMAIN eu THEN [eu EXCEPT ![id] = @ + cost] ELSE eu @@ (id :> cost)

\* the deduction with the sign of the cost lost
Deduct_Mut(ne, id, cost) == [ne EXCEPT ![id] = @ + cost]

\* nodeEnergy[id] -= cost
Deduct(ne, id, cost) == [ne EXCEPT ![id] = @ - cost]

\* a ledger that outlives the call: filled by the first call only
InitialLedger_Mut ==
  IF nodeEnergy = EmptyMap
  THEN [id \in { nodes[k].id : k \in 1..Len(nodes) } |-> 50 * config.initialEnergy]
  ELSE nodeEnergy

\* nodes.forEach(node => { nodeEnergy[node.id] = config.initialEnergy })
InitialLedger == [id \in { nodes[k].id : k \in 1..Len(nodes) } |-> 50 * config.initialEnergy]

\* the count with >= 0 for > 0
CountAlive_Mut(ne) == Cardinality({ k \in 1..Len(nodes) : ne[nodes[k].id] >= 0 })

\* nodes.filter(node => nodeEnergy[node.id] > 0).length
CountAlive(ne) == Cardinality({ k \in 1..Len(nodes) : ne[nodes[k].id] > 0 })

\* the lifetime recorded as the round after the one of the first death
NewLifetime_Mut(nodesAlive) ==
  IF nodesAlive < Len(nodes) /\ ~networkDied THEN round + 1 ELSE networkLifetime

\* if this is the first round where a node died, record network lifetime
NewLifetime(nodesAlive) ==
  IF nodesAlive < Len(nodes) /\ ~networkDied THEN round ELSE networkLifetime

\* the flag set by every round
NewNetworkDied_Mut(nodesAlive) ==
  networkDied \/ (nodesAlive <= Len(nodes) /\ ~networkDied)

NewNetworkDied(nodesAlive) ==
  networkDied \/ (nodesAlive < Len(nodes) /\ ~networkDied)

\* the total that counts only the nodes still alive after the round
RoundEnergy_Mut(eu) ==
  SumMap([id \in { x \in DOMAIN eu : nodeEnergy[x] > 0 } |-> eu[id]])

\* for (const id in energyUsage) totalEnergyConsumption += energyUsage[id]
RoundEnergy(eu) == SumMap(eu)

\* the cost of one message over distance d: te * ds * (1 + 0.1 * d)
TransmitCost(d) == config.transmitEnergy * config.dataSize * (50 + 5 * d)

\* the cost of receiving one message: re * ds
ReceiveCost == config.receiveEnergy * config.dataSize * 50

\* ---------------------------------------------------- Init and the frames
Init ==
  /\ alg \in {"LEACH", "PEGASIS"}
  /\ nodes \in NodeLists
  /\ config \in (IF alg = "LEACH" THEN LEACHConfigs ELSE PEGASISConfigs)
  /\ pc = "start"
  /\ round = 1
  /\ nodeEnergy = EmptyMap
  /\ rounds = <<>>
  /\ totalEnergyConsumption = 0
  /\ dataDelivered = 0
  /\ networkDied = FALSE
  /\ networkLifetime = 0
  /\ chain = <<>>
  /\ leader = NoId
  /\ clusterHeads = <<>>
  /\ clusterMembers = EmptyMap
  /\ energyUsage = EmptyMap
  /\ roundDataTransmitted = 0
  /\ i = 0
  /\ j = 0
  /\ result = "none"
  /\ metrics = NoMetrics
  /\ results = <<>>
  /\ isSimulating = FALSE
  /\ currentRound = 1
  /\ timer = FALSE
  /\ phase = "idle"

\* what a call of a simulator does not write: its arguments and what its
\* caller holds
playback == <<isSimulating, currentRound, timer, phase>>
inputs == <<alg, nodes, config, results, playback>>
counters == <<i, j>>
totals == <<rounds, totalEnergyConsumption, dataDelivered, networkDied, networkLifetime>>
topology == <<chain, leader, clusterHeads, clusterMembers>>

\* the metrics that report the lifetime the run started with
FinalMetrics_Mut ==
  [energyConsumption |-> totalEnergyConsumption,
   networkLifetime |-> config.rounds,
   dataDelivered |-> dataDelivered,
   averageEnergy |-> [sum |-> SumMap(nodeEnergy), count |-> Len(nodes)]]

\* the metrics of the returned result (leach.ts:200-214, pegasis.ts:201-215)
FinalMetrics ==
  [energyConsumption |-> totalEnergyConsumption,
   networkLifetime |-> networkLifetime,
   dataDelivered |-> dataDelivered,
   averageEnergy |-> [sum |-> SumMap(nodeEnergy), count |-> Len(nodes)]]

\* ------------------------------------------------------------------- LEACH
\* the declarations and the initialisation of the ledger
LeachStart ==
  /\ alg = "LEACH" /\ pc = "start"
  /\ nodeEnergy' = InitialLedger
  /\ rounds' = <<>>
  /\ totalEnergyConsumption' = 0
  /\ dataDelivered' = 0
  /\ networkDied' = FALSE
  /\ networkLifetime' = config.rounds
  /\ round' = 1
  /\ pc' = "loop"
  /\ UNCHANGED <<inputs, topology, energyUsage, roundDataTransmitted, counters,
                 result, metrics>>

\* the rounds after a death run as well
RoundSkipped_Mut == FALSE

\* skip simulation if network has died: if (networkDied) continue
RoundSkipped == networkDied

LeachRoundSkip ==
  /\ alg = "LEACH" /\ pc = "loop"
  /\ round <= config.rounds /\ RoundSkipped
  /\ round' = round + 1
  /\ UNCHANGED <<inputs, pc, nodeEnergy, totals, topology, energyUsage,
                 roundDataTransmitted, counters, result, metrics>>

\* the election that does not skip the base station
IsCandidate_Mut(k) == nodeEnergy[nodes[k].id] > 0

\* the node is drawn for: alive and not the base station
IsCandidate(k) == nodeEnergy[nodes[k].id] > 0 /\ nodes[k].type # "base"

\* the nodes Math.random() is drawn for
Candidates == { k \in 1..Len(nodes) : IsCandidate(k) }

\* the comparison with <= for <
DrawOutcomes_Mut == { randomProb <= config.probabilityThreshold : randomProb \in RandomDraws }

\* randomProb < config.probabilityThreshold, for every draw that can be made
DrawOutcomes == { randomProb < config.probabilityThreshold : randomProb \in RandomDraws }

\* the heads elected by the outcomes of the draws, in list order
ElectedHeads(elected) == IdsAt({ k \in Candidates : elected[k] }, 1)

\* the fallback that does not filter the base station out
AvailableNodes_Mut == IdsAt({ k \in 1..Len(nodes) : nodeEnergy[nodes[k].id] > 0 }, 1)

\* nodes.filter(node => nodeEnergy[node.id] > 0 && node.type !== 'base')
AvailableNodes == IdsAt(Candidates, 1)

\* availableNodes[Math.floor(Math.random() * availableNodes.length)]
FallbackHead(draw) == AvailableNodes[((draw * Len(AvailableNodes)) \div 100) + 1]

\* the election without its fallback
FallbackHeads_Mut(draw) == <<>>

\* if no cluster heads were selected, choose one randomly
FallbackHeads(draw) ==
  IF Len(AvailableNodes) > 0 THEN <<FallbackHead(draw)>> ELSE <<>>

\* the scan that lets a later head at the same distance win
RECURSIVE NearestScan_Mut(_, _, _, _, _)
NearestScan_Mut(node, heads, k, minDistance, nearestHead) ==
  IF k > Len(heads) THEN nearestHead
  ELSE LET distance == calculateDistance(node.position, NodeById(heads[k]).position)
       IN IF nearestHead = NoId \/ distance <= minDistance
          THEN NearestScan_Mut(node, heads, k + 1, distance, heads[k])
          ELSE NearestScan_Mut(node, heads, k + 1, minDistance, nearestHead)

\* the scan for the nearest head; nearestHead = NoId stands for
\* minDistance = Infinity
RECURSIVE NearestScan(_, _, _, _, _)
NearestScan(node, heads, k, minDistance, nearestHead) ==
  IF k > Len(heads) THEN nearestHead
  ELSE LET distance == calculateDistance(node.position, NodeById(heads[k]).position)
       IN IF nearestHead = NoId \/ distance < minDistance
          THEN NearestScan(node, heads, k + 1, distance, heads[k])
          ELSE NearestScan(node, heads, k + 1, minDistance, nearestHead)

NearestHead(node, heads) == NearestScan(node, heads, 1, 0, NoId)

\* the assignment that does not skip the cluster heads
AssignedMembers_Mut(heads) ==
  [h \in Range(heads) |->
     IdsAt({ k \in 1..Len(nodes) :
               /\ IsCandidate(k)
               /\ NearestHead(nodes[k], heads) = h }, 1)]

\* the members every head is given, in list order
AssignedMembers(heads) ==
  [h \in Range(heads) |->
     IdsAt({ k \in 1..Len(nodes) :
               /\ IsCandidate(k)
               /\ nodes[k].id \notin Range(heads)
               /\ NearestHead(nodes[k], heads) = h }, 1)]

\* a round that is run: the election, the fallback when it elected nobody,
\* and the assignment of the other nodes to their nearest head
LeachRoundBegin ==
  /\ alg = "LEACH" /\ pc = "loop"
  /\ round <= config.rounds /\ ~RoundSkipped
  /\ \E elected \in [Candidates -> DrawOutcomes] :
       IF Len(ElectedHeads(elected)) # 0
       THEN clusterHeads' = ElectedHeads(elected)
       ELSE \E draw \in RandomDraws : clusterHeads' = FallbackHeads(draw)
  /\ clusterMembers' = AssignedMembers(clusterHeads')
  /\ energyUsage' = EmptyMap
  /\ roundDataTransmitted' = 0
  /\ i' = 1
  /\ j' = 1
  /\ pc' = "round"
  /\ UNCHANGED <<inputs, round, nodeEnergy, totals, chain, leader, result, metrics>>

\* the (head, member) pairs in the order the nested loops visit them
RECURSIVE MemberPairs(_)
MemberPairs(k) ==
  IF k > Len(clusterHeads) THEN <<>>
  ELSE LET h == clusterHeads[k]
       IN [m \in 1..Len(clusterMembers[h]) |-> <<h, clusterMembers[h][m]>>]
          \o MemberPairs(k + 1)

\* 1. one member sends its data to its cluster head
LeachMemberSend ==
  /\ alg = "LEACH" /\ pc = "round"
  /\ i <= Len(MemberPairs(1))
  /\ LET headId == MemberPairs(1)[i][1]
         memberId == MemberPairs(1)[i][2]
         distance == calculateDistance(NodeById(memberId).position, NodeById(headId).position)
         transmitCost == TransmitCost(distance)
         receiveCost == ReceiveCost
     IN /\ energyUsage' = AddUsage(AddUsage(energyUsage, memberId, transmitCost), headId, receiveCost)
        /\ nodeEnergy' = Deduct(Deduct(nodeEnergy, memberId, transmitCost), headId, receiveCost)
        /\ roundDataTransmitted' = roundDataTransmitted + 10 * config.dataSize
  /\ i' = i + 1
  /\ UNCHANGED <<inputs, pc, round, totals, topology, j, result, metrics>>

\* the cost of a head's message to the base:
\* te * (ds * (0.5 + 0.5 * memberCount)) * (1 + 0.2 * d)
HeadToBaseCost(memberCount, d) ==
  config.transmitEnergy * config.dataSize * (1 + memberCount) * (25 + 5 * d)

\* 2. one cluster head sends its aggregate to the base station; without a
\* base station baseStation.position throws
LeachHeadSend ==
  /\ alg = "LEACH" /\ pc = "round"
  /\ i > Len(MemberPairs(1))
  /\ j <= Len(clusterHeads)
  /\ IF ~HasBase
     THEN /\ result' = "TypeError"
          /\ pc' = "done"
          /\ UNCHANGED <<nodeEnergy, energyUsage, roundDataTransmitted, j>>
     ELSE LET headId == clusterHeads[j]
              distance == calculateDistance(NodeById(headId).position, BaseStation.position)
              memberCount == Len(clusterMembers[headId])
              transmitCost == HeadToBaseCost(memberCount, distance)
          IN /\ energyUsage' = AddUsage(energyUsage, headId, transmitCost)
             /\ nodeEnergy' = Deduct(nodeEnergy, headId, transmitCost)
             /\ roundDataTransmitted' =
                  roundDataTransmitted + config.dataSize * (5 + 5 * memberCount)
             /\ j' = j + 1
             /\ UNCHANGED <<pc, result>>
  /\ UNCHANGED <<inputs, round, totals, topology, i, metrics>>

\* count the alive nodes, fix the lifetime, store the round, add the totals
LeachBookkeeping ==
  /\ alg = "LEACH" /\ pc = "round"
  /\ i > Len(MemberPairs(1))
  /\ j > Len(clusterHeads)
  /\ LET nodesAlive == CountAlive(nodeEnergy)
     IN /\ networkLifetime' = NewLifetime(nodesAlive)
        /\ networkDied' = NewNetworkDied(nodesAlive)
        /\ rounds' = Append(rounds,
             [roundNumber |-> round,
              clusterHeads |-> clusterHeads,
              clusterMembers |-> clusterMembers,
              energyUsage |-> energyUsage,
              nodesAlive |-> nodesAlive,
              dataTransmitted |-> roundDataTransmitted])
  /\ dataDelivered' = dataDelivered + roundDataTransmitted
  /\ totalEnergyConsumption' = totalEnergyConsumption + RoundEnergy(energyUsage)
  /\ round' = round + 1
  /\ pc' = "loop"
  /\ UNCHANGED <<inputs, nodeEnergy, topology, energyUsage, roundDataTransmitted,
                 counters, result, metrics>>

LeachReturn ==
  /\ alg = "LEACH" /\ pc = "loop"
  /\ round > config.rounds
  /\ metrics' = FinalMetrics
  /\ result' = "returned"
  /\ pc' = "done"
  /\ UNCHANGED <<inputs, round, nodeEnergy, totals, topology, energyUsage,
                 roundDataTransmitted, counters>>

\* ----------------------------------------------------------------- PEGASIS
\* nodes.filter(node => node.type !== 'base')
SensorNodes == SelectSeq(nodes, LAMBDA n : n.type # "base")

\* the scan that lets a later node at the same distance win
RECURSIVE NearestIndexScan_Mut(_, _, _, _, _)
NearestIndexScan_Mut(currentNode, nodesCopy, k, minDistance, nearestIndex) ==
  IF k > Len(nodesCopy) THEN nearestIndex
  ELSE LET distance == calculateDistance(currentNode.position, nodesCopy[k].position)
       IN IF distance <= minDistance
          THEN NearestIndexScan_Mut(currentNode, nodesCopy, k + 1, distance, k)
          ELSE NearestIndexScan_Mut(currentNode, nodesCopy, k + 1, minDistance, nearestIndex)

\* the index of the nearest node of nodesCopy, the first one on a tie
RECURSIVE NearestIndexScan(_, _, _, _, _)
NearestIndexScan(currentNode, nodesCopy, k, minDistance, nearestIndex) ==
  IF k > Len(nodesCopy) THEN nearestIndex
  ELSE LET distance == calculateDistance(currentNode.position, nodesCopy[k].position)
       IN IF distance < minDistance
          THEN NearestIndexScan(currentNode, nodesCopy, k + 1, distance, k)
          ELSE NearestIndexScan(currentNode, nodesCopy, k + 1, minDistance, nearestIndex)

NearestIndex(currentNode, nodesCopy) ==
  NearestIndexScan(currentNode, nodesCopy, 2,
                   calculateDistance(currentNode.position, nodesCopy[1].position), 1)

\* the splice that removes two nodes
Splice_Mut(s, k) == SubSeq(s, 1, k - 1) \o SubSeq(s, k + 2, Len(s))

\* nodesCopy.splice(k, 1)
Splice(s, k) == SubSeq(s, 1, k - 1) \o SubSeq(s, k + 1, Len(s))

RECURSIVE GreedyLoop(_, _, _)
GreedyLoop(chainSoFar, currentNode, nodesCopy) ==
  IF Len(nodesCopy) = 0 THEN chainSoFar
  ELSE LET nearestIndex == NearestIndex(currentNode, nodesCopy)
       IN GreedyLoop(Append(chainSoFar, nodesCopy[nearestIndex].id),
                     nodesCopy[nearestIndex],
                     Splice(nodesCopy, nearestIndex))

\* the chain that starts with another node in a later call
constructGreedyChain_Mut(ns) ==
  IF Len(ns) = 0 THEN <<>>
  ELSE IF Len(ns) = 1 THEN <<ns[1].id>>
  ELSE IF results = <<>> THEN GreedyLoop(<<ns[1].id>>, ns[1], Tail(ns))
  ELSE GreedyLoop(<<ns[Len(ns)].id>>, ns[Len(ns)], SubSeq(ns, 1, Len(ns) - 1))

constructGreedyChain(ns) ==
  IF Len(ns) = 0 THEN <<>>
  ELSE IF Len(ns) = 1 THEN <<ns[1].id>>
  ELSE GreedyLoop(<<ns[1].id>>, ns[1], Tail(ns))

PegasisStart ==
  /\ alg = "PEGASIS" /\ pc = "start"
  /\ nodeEnergy' = InitialLedger
  /\ rounds' = <<>>
  /\ totalEnergyConsumption' = 0
  /\ dataDelivered' = 0
  /\ networkDied' = FALSE
  /\ networkLifetime' = config.rounds
  /\ chain' = constructGreedyChain(SensorNodes)
  /\ round' = 1
  /\ pc' = "loop"
  /\ UNCHANGED <<inputs, leader, clusterHeads, clusterMembers, energyUsage,
                 roundDataTransmitted, counters, result, metrics>>

\* the rotation that starts one place late
RoundRobinLeader_Mut ==
  IF Len(chain) = 0 THEN NoId ELSE chain[(round % Len(chain)) + 1]

\* chain[(round - 1) % chain.length]; chain[NaN] is undefined
RoundRobinLeader ==
  IF Len(chain) = 0 THEN NoId ELSE chain[((round - 1) % Len(chain)) + 1]

\* the reduction that lets a later node with the same energy win
RECURSIVE ReduceMax_Mut(_, _)
ReduceMax_Mut(k, maxId) ==
  IF k > Len(chain) THEN maxId
  ELSE IF nodeEnergy[chain[k]] >= nodeEnergy[maxId]
       THEN ReduceMax_Mut(k + 1, chain[k])
       ELSE ReduceMax_Mut(k + 1, maxId)

\* chain.reduce((maxId, nodeId) => ..., chain[0])
RECURSIVE ReduceMax(_, _)
ReduceMax(k, maxId) ==
  IF k > Len(chain) THEN maxId
  ELSE IF nodeEnergy[chain[k]] > nodeEnergy[maxId]
       THEN ReduceMax(k + 1, chain[k])
       ELSE ReduceMax(k + 1, maxId)

EnergyBasedLeader == IF Len(chain) = 0 THEN NoId ELSE ReduceMax(1, chain[1])

SelectLeader ==
  IF config.leaderSelectionMethod = "roundRobin" THEN RoundRobinLeader ELSE EnergyBasedLeader

\* chain.indexOf(leader) + 1: 0 when the leader is not in the chain
LeaderIndex ==
  IF leader \in Range(chain)
  THEN CHOOSE k \in 1..Len(chain) :
         chain[k] = leader /\ \A l \in 1..(k - 1) : chain[l] # leader
  ELSE 0

PegasisRoundBegin ==
  /\ alg = "PEGASIS" /\ pc = "loop"
  /\ round <= config.rounds /\ ~RoundSkipped
  /\ energyUsage' = EmptyMap
  /\ roundDataTransmitted' = 0
  /\ leader' = SelectLeader
  /\ i' = 1
  /\ j' = Len(chain)
  /\ pc' = "relay"
  /\ UNCHANGED <<inputs, round, nodeEnergy, totals, chain, clusterHeads,
                 clusterMembers, result, metrics>>

PegasisRoundSkip ==
  /\ alg = "PEGASIS" /\ pc = "loop"
  /\ round <= config.rounds /\ RoundSkipped
  /\ round' = round + 1
  /\ UNCHANGED <<inputs, pc, nodeEnergy, totals, topology, energyUsage,
                 roundDataTransmitted, counters, result, metrics>>

\* the hop that charges the receiver whatever energy it has
RelayHop_Mut(senderId, receiverId) ==
  IF nodeEnergy[senderId] <= 0
  THEN [ne |-> nodeEnergy, eu |-> energyUsage, data |-> roundDataTransmitted]
  ELSE LET distance == calculateDistance(NodeById(senderId).position,
                                         NodeById(receiverId).position)
           transmitCost == TransmitCost(distance)
           ne1 == Deduct(nodeEnergy, senderId, transmitCost)
           eu1 == AddUsage(energyUsage, senderId, transmitCost)
       IN [ne |-> Deduct(ne1, receiverId, ReceiveCost),
           eu |-> AddUsage(eu1, receiverId, ReceiveCost),
           data |-> roundDataTransmitted + 10 * config.dataSize]

\* one iteration of a relay loop: the ledger, the usage and the data after it
RelayHop(senderId, receiverId) ==
  IF nodeEnergy[senderId] <= 0
  THEN [ne |-> nodeEnergy, eu |-> energyUsage, data |-> roundDataTransmitted]
  ELSE LET distance == calculateDistance(NodeById(senderId).position,
                                         NodeById(receiverId).position)
           transmitCost == TransmitCost(distance)
           ne1 == Deduct(nodeEnergy, senderId, transmitCost)
           eu1 == AddUsage(energyUsage, senderId, transmitCost)
       IN IF ne1[receiverId] <= 0
          THEN [ne |-> ne1, eu |-> eu1, data |-> roundDataTransmitted]
          ELSE [ne |-> Deduct(ne1, receiverId, ReceiveCost),
                eu |-> AddUsage(eu1, receiverId, ReceiveCost),
                data |-> roundDataTransmitted + 10 * config.dataSize]

\* left side of the chain (from start to leader)
PegasisLeft ==
  /\ alg = "PEGASIS" /\ pc = "relay"
  /\ i < LeaderIndex
  /\ LET hop == RelayHop(chain[i], chain[i + 1])
     IN /\ nodeEnergy' = hop.ne
        /\ energyUsage' = hop.eu
        /\ roundDataTransmitted' = hop.data
  /\ i' = i + 1
  /\ UNCHANGED <<inputs, pc, round, totals, topology, j, result, metrics>>

\* right side of the chain (from end to leader)
PegasisRight ==
  /\ alg = "PEGASIS" /\ pc = "relay"
  /\ i >= LeaderIndex
  /\ j > LeaderIndex
  /\ LET hop == RelayHop(chain[j], chain[j - 1])
     IN /\ nodeEnergy' = hop.ne
        /\ energyUsage' = hop.eu
        /\ roundDataTransmitted' = hop.data
  /\ j' = j - 1
  /\ UNCHANGED <<inputs, pc, round, totals, topology, i, result, metrics>>

\* the cost of a relay hop charged for the message to the base
LeaderToBaseCost_Mut(d) == config.transmitEnergy * config.dataSize * (50 + 5 * d)

\* the cost of the leader's message to the base:
\* te * (ds * 0.8) * (1 + 0.2 * d)
LeaderToBaseCost(d) == config.transmitEnergy * config.dataSize * (40 + 8 * d)

\* baseStation && nodeEnergy[leader] > 0; nodeEnergy[undefined] > 0 is false
LeaderSends == HasBase /\ leader # NoId /\ nodeEnergy[leader] > 0

\* the leader aggregates the data and sends it to the base station
PegasisLeaderSend ==
  /\ alg = "PEGASIS" /\ pc = "relay"
  /\ i >= LeaderIndex
  /\ j <= LeaderIndex
  /\ IF LeaderSends
     THEN LET distance == calculateDistance(NodeById(leader).position, BaseStation.position)
              transmitCost == LeaderToBaseCost(distance)
          IN /\ energyUsage' = AddUsage(energyUsage, leader, transmitCost)
             /\ nodeEnergy' = Deduct(nodeEnergy, leader, transmitCost)
             /\ roundDataTransmitted' = roundDataTransmitted + 8 * config.dataSize
     ELSE UNCHANGED <<energyUsage, nodeEnergy, roundDataTransmitted>>
  /\ pc' = "bookkeeping"
  /\ UNCHANGED <<inputs, round, totals, topology, counters, result, metrics>>

PegasisBookkeeping ==
  /\ alg = "PEGASIS" /\ pc = "bookkeeping"
  /\ LET nodesAlive == CountAlive(nodeEnergy)
     IN /\ networkLifetime' = NewLifetime(nodesAlive)
        /\ networkDied' = NewNetworkDied(nodesAlive)
        /\ rounds' = Append(rounds,
             [roundNumber |-> round,
              chain |-> chain,
              leader |-> leader,
              energyUsage |-> energyUsage,
              nodesAlive |-> nodesAlive,
              dataTransmitted |-> roundDataTransmitted])
  /\ dataDelivered' = dataDelivered + roundDataTransmitted
  /\ totalEnergyConsumption' = totalEnergyConsumption + RoundEnergy(energyUsage)
  /\ round' = round + 1
  /\ pc' = "loop"
  /\ UNCHANGED <<inputs, nodeEnergy, topology, energyUsage, roundDataTransmitted,
                 counters, result, metrics>>

PegasisReturn ==
  /\ alg = "PEGASIS" /\ pc = "loop"
  /\ round > config.rounds
  /\ metrics' = FinalMetrics
  /\ result' = "returned"
  /\ pc' = "done"
  /\ UNCHANGED <<inputs, round, nodeEnergy, totals, topology, energyUsage,
                 roundDataTransmitted, counters>>

\* ------------------------------------------------------- the specification
Next ==
  \/ LeachStart
  \/ LeachRoundBegin
  \/ LeachRoundSkip
  \/ LeachMemberSend
  \/ LeachHeadSend
  \/ LeachBookkeeping
  \/ LeachReturn
  \/ PegasisStart
  \/ PegasisRoundBegin
  \/ PegasisRoundSkip
  \/ PegasisLeft
  \/ PegasisRight
  \/ PegasisLeaderSend
  \/ PegasisBookkeeping
  \/ PegasisReturn

Spec == Init /\ [][Next]_vars

\* ---------------------------------------------- calls on the same snapshot
\* the configs of the other simulator: leachConfig and pegasisConfig are
\* separate states of the page
OtherConfigs ==
  LET c == [transmitEnergy |-> config.transmitEnergy,
            receiveEnergy |-> config.receiveEnergy, dataSize |-> config.dataSize]
  IN IF alg = "LEACH"
     THEN { MkConfig(config.rounds, config.initialEnergy, c, 0, m) : m \in Methods }
     ELSE { MkConfig(config.rounds, config.initialEnergy, c, p, "none")
              : p \in Thresholds \ {20} }

\* the caller keeps the result of the call that returned and calls the
\* other simulator with the same nodes: the second call with the config of
\* the other simulator, the third with the config of the first call
NextCall ==
  /\ pc = "done" /\ result = "returned"
  /\ Len(results) <= 1
  /\ results' = Append(results,
       [alg |-> alg, config |-> config, rounds |-> rounds, metrics |-> metrics])
  /\ alg' = IF alg = "LEACH" THEN "PEGASIS" ELSE "LEACH"
  /\ config' \in IF results = <<>> THEN OtherConfigs ELSE {results[Len(results)].config}
  /\ pc' = "start"
  /\ result' = "none"
  /\ UNCHANGED <<nodes, round, nodeEnergy, totals, topology, energyUsage,
                 roundDataTransmitted, counters, metrics, playback>>

\* the comparisons start with a run of MaxRounds rounds with the nominal
\* costs and some energy; the election draws of LEACH all fail or all pass
ComparisonInit ==
  /\ Init
  /\ config.rounds = MaxRounds
  /\ config.initialEnergy > 0
  /\ config.transmitEnergy = 1 /\ config.receiveEnergy = 1 /\ config.dataSize = 1
  /\ config.probabilityThreshold # 20

ComparisonNext == Next \/ NextCall

ComparisonSpec == ComparisonInit /\ [][ComparisonNext]_vars

\* ------------------------------------------------------------ the playback
\* the state of a simulator that is not in a call
simulator == <<pc, round, nodeEnergy, totals, topology, energyUsage,
               roundDataTransmitted, counters, result, metrics>>

\* const maxRounds = algorithm === 'LEACH' ? leachConfig.rounds
\*                                         : pegasisConfig.rounds;
\* config is the config of the selected algorithm
maxRounds == config.rounds

\* the configs the page can hold for an algorithm: any number of rounds,
\* the nominal costs, an energy that lasts one round or all of them
PlaybackConfigs(a) ==
  IF a = "LEACH"
  THEN { MkConfig(r, e, NominalCost, 0, "none") : r \in 0..MaxRounds, e \in {1, 10000} }
  ELSE { MkConfig(r, e, NominalCost, 0, "roundRobin")
           : r \in 0..MaxRounds, e \in {1, 10000} }

\* onClick of the run button while it shows "Run Simulation": the handler
\* enters the simulator with the selected algorithm's config; its state
\* updates are applied when it is left
startSimulation ==
  /\ phase = "idle"
  /\ ~isSimulating
  /\ pc' = "start"
  /\ result' = "none"
  /\ phase' = "call"
  /\ UNCHANGED <<alg, nodes, config, results, isSimulating, currentRound, timer,
                 round, nodeEnergy, totals, topology, energyUsage,
                 roundDataTransmitted, counters, metrics>>

\* the results the page holds after the call: setLeachResults(results) or
\* setPegasisResults(results) replaces the selected algorithm's result; a
\* call that threw sets nothing
HeldResults ==
  IF result = "returned"
  THEN SelectSeq(results, LAMBDA r : r.alg # alg)
         \o <<[alg |-> alg, config |-> config, rounds |-> rounds, metrics |-> metrics]>>
  ELSE results

\* the simulator is left and the page renders with setIsSimulating(true),
\* setCurrentRound(1) and the result
startSimulationEnd ==
  /\ phase = "call"
  /\ pc = "done"
  /\ isSimulating' = TRUE
  /\ currentRound' = 1
  /\ results' = HeldResults
  /\ phase' = "effect"
  /\ UNCHANGED <<alg, nodes, config, timer, simulator>>

\* onClick of the run button while it shows "Pause"
pauseSimulation ==
  /\ phase = "idle"
  /\ isSimulating
  /\ isSimulating' = FALSE
  /\ phase' = "effect"
  /\ UNCHANGED <<alg, nodes, config, results, currentRound, timer, simulator>>

resetSimulation ==
  /\ phase = "idle"
  /\ isSimulating' = FALSE
  /\ currentRound' = 1
  /\ results' = <<>>
  /\ phase' = "effect"
  /\ UNCHANGED <<alg, nodes, config, timer, simulator>>

\* onChange of the algorithm select, disabled while simulating; the other
\* algorithm has its own config
setAlgorithm ==
  /\ phase = "idle"
  /\ ~isSimulating
  /\ alg' = (IF alg = "LEACH" THEN "PEGASIS" ELSE "LEACH")
  /\ config' \in { c \in PlaybackConfigs(alg') : c.initialEnergy = config.initialEnergy }
  /\ phase' = "effect"
  /\ UNCHANGED <<nodes, results, isSimulating, currentRound, timer, simulator>>

\* onChange of the "Number of Rounds" input of the selected algorithm,
\* disabled while simulating: rounds: parseInt(e.target.value)
setRounds ==
  /\ phase = "idle"
  /\ ~isSimulating
  /\ \E r \in (0..MaxRounds) \ {config.rounds} :
       config' = [config EXCEPT !.rounds = r]
  /\ phase' = "effect"
  /\ UNCHANGED <<alg, nodes, results, isSimulating, currentRound, timer, simulator>>

\* the effect after a render: the cleanup clears the timeout of the run
\* before, then the timeout is set or the playback is stopped
effect ==
  /\ phase = "effect"
  /\ IF ~isSimulating
     THEN /\ timer' = FALSE
          /\ phase' = "idle"
          /\ UNCHANGED isSimulating
     ELSE IF currentRound < maxRounds
     THEN /\ timer' = TRUE
          /\ phase' = "idle"
          /\ UNCHANGED isSimulating
     ELSE /\ timer' = FALSE
          /\ isSimulating' = FALSE
          /\ phase' = "effect"
  /\ UNCHANGED <<alg, nodes, config, results, currentRound, simulator>>

\* the timeout fires: setCurrentRound(prev => prev + 1)
tick ==
  /\ phase = "idle"
  /\ timer
  /\ timer' = FALSE
  /\ currentRound' = currentRound + 1
  /\ phase' = "effect"
  /\ UNCHANGED <<alg, nodes, config, results, isSimulating, simulator>>

\* the node lists of the playback, which reads nothing of the nodes: lists
\* of MaxNodes nodes at one place, the first one the base station or none
PlaybackNodeLists ==
  { l \in NodeLists :
      /\ Len(l) = MaxNodes
      /\ \A k \in 1..Len(l) : l[k].position = l[1].position
      /\ \A k \in 2..Len(l) : l[k].type = "sensor" }

\* the page before the first run: no simulator was called
PlaybackInit ==
  /\ alg \in {"LEACH", "PEGASIS"}
  /\ nodes \in PlaybackNodeLists
  /\ config \in PlaybackConfigs(alg)
  /\ config.rounds = MaxRounds
  /\ pc = "done"
  /\ round = 1
  /\ nodeEnergy = EmptyMap
  /\ rounds = <<>>
  /\ totalEnergyConsumption = 0
  /\ dataDelivered = 0
  /\ networkDied = FALSE
  /\ networkLifetime = 0
  /\ chain = <<>>
  /\ leader = NoId
  /\ clusterHeads = <<>>
  /\ clusterMembers = EmptyMap
  /\ energyUsage = EmptyMap
  /\ roundDataTransmitted = 0
  /\ i = 0
  /\ j = 0
  /\ result = "none"
  /\ metrics = NoMetrics
  /\ results = <<>>
  /\ isSimulating = FALSE
  /\ currentRound = 1
  /\ timer = FALSE
  /\ phase = "idle"

PlaybackNext ==
  \/ Next
  \/ startSimulation
  \/ startSimulationEnd
  \/ pauseSimulation
  \/ resetSimulation
  \/ setAlgorithm
  \/ setRounds
  \/ effect
  \/ tick

\* the simulator runs to its end, the renders and the effects follow the
\* handlers, and a pending timeout fires; the user is free to do nothing
PlaybackSpec ==
  /\ PlaybackInit
  /\ [][PlaybackNext]_vars
  /\ WF_vars(Next)
  /\ WF_vars(startSimulationEnd)
  /\ WF_vars(effect)
  /\ WF_vars(tick)

\* ------------------------------------------------------------- properties
Returned == result = "returned"

NodeIds == { nodes[k].id : k \in 1..Len(nodes) }

SensorIds == { nodes[k].id : k \in { l \in 1..Len(nodes) : nodes[l].type # "base" } }

\* some recorded round counted a node as dead
EverCountedDead == \E k \in 1..Len(rounds) : rounds[k].nodesAlive < Len(nodes)

NonNegativeConstants ==
  /\ config.initialEnergy >= 0
  /\ config.transmitEnergy >= 0
  /\ config.receiveEnergy >= 0
  /\ config.dataSize >= 0

\* the sum of the energyUsage values of the first k entries of the log
RECURSIVE LogEnergy(_)
LogEnergy(k) ==
  IF k = 0 THEN 0
  ELSE LogEnergy(k - 1)
       + LET eu == rounds[k].energyUsage
             ids == DOMAIN eu
         IN IF ids = {} THEN 0
            ELSE LET F[S \in SUBSET ids] ==
                       IF S = {} THEN 0
                       ELSE LET x == CHOOSE y \in S : TRUE IN eu[x] + F[S \ {x}]
                 IN F[ids]

\* C1: the returned rounds log has exactly config.rounds entries, whenever
\* the first node dies.
C1_FullLengthLog == Returned => Len(rounds) = config.rounds

\* C2 as stated: networkLifetime <= config.rounds, and networkLifetime equals
\* config.rounds if and only if no round counted a node as dead.
C2_LifetimeIffNoDeath ==
  Returned =>
    /\ metrics.networkLifetime <= config.rounds
    /\ (metrics.networkLifetime = config.rounds) <=> ~EverCountedDead

\* C2 as amended: networkLifetime <= config.rounds, and networkLifetime equals
\* config.rounds if and only if no round before round config.rounds counted
\* a node as dead.
C2_LifetimeBound ==
  Returned =>
    /\ metrics.networkLifetime <= config.rounds
    /\ (metrics.networkLifetime = config.rounds)
         <=> (\A k \in 1..Len(rounds) :
                rounds[k].nodesAlive < Len(nodes) => rounds[k].roundNumber = config.rounds)

\* a run returned whose first death is in its last round
C2_Witness ==
  /\ Returned
  /\ config.rounds >= 2
  /\ EverCountedDead
  /\ metrics.networkLifetime = config.rounds

\* C3: the remaining energy of every node is never negative, in every state
\* of a run.
C3_NeverNegative == \A id \in DOMAIN nodeEnergy : nodeEnergy[id] >= 0

\* C4: with non-negative energy constants, no step of a run increases the
\* remaining energy of any node.
C4_NoIncrease ==
  [][NonNegativeConstants =>
       \A id \in DOMAIN nodeEnergy : nodeEnergy'[id] <= nodeEnergy[id]]_vars

\* a node has been charged in a run with non-negative constants
C4_Witness ==
  /\ NonNegativeConstants
  /\ \E id \in DOMAIN nodeEnergy : nodeEnergy[id] < 50 * config.initialEnergy

\* C5: metrics.energyConsumption is the sum, over the entries of the returned
\* log, of the sum of the entry's energyUsage values.
C5_EnergyReconciles ==
  Returned => metrics.energyConsumption = LogEnergy(Len(rounds))

\* a run returned with two recorded rounds that both used energy, one of
\* which killed a node that had used energy
C5_Witness ==
  /\ Returned
  /\ Len(rounds) >= 2
  /\ \A k \in 1..Len(rounds) : LogEnergy(k) > LogEnergy(k - 1)
  /\ \E id \in DOMAIN rounds[Len(rounds)].energyUsage :
       rounds[Len(rounds)].energyUsage[id] > 0 /\ nodeEnergy[id] <= 0

\* C6 as stated: every recorded LEACH round with nodesAlive > 0 has a
\* non-empty clusterHeads.
C6_HeadsWhileAlive ==
  alg = "LEACH" =>
    \A k \in 1..Len(rounds) :
      rounds[k].nodesAlive > 0 => Len(rounds[k].clusterHeads) > 0

\* C6 as amended: every recorded LEACH round with nodesAlive > 0, of a run
\* whose node list has a non-base node, has a non-empty clusterHeads.
C6_HeadsWhileSensorsAlive ==
  (alg = "LEACH" /\ SensorIds # {}) =>
    \A k \in 1..Len(rounds) :
      rounds[k].nodesAlive > 0 => Len(rounds[k].clusterHeads) > 0

\* a recorded LEACH round whose only head is the one the fallback chose
C6_Witness ==
  /\ alg = "LEACH"
  /\ config.probabilityThreshold = 0
  /\ Cardinality(SensorIds) >= 2
  /\ \E k \in 1..Len(rounds) :
       rounds[k].nodesAlive > 0 /\ Len(rounds[k].clusterHeads) = 1

\* C7: the PEGASIS chain holds every non-base id exactly once and no other
\* id, it is built once before the first round, and the chain of every
\* recorded round is that chain.
C7_ChainOnce ==
  /\ [](alg = "PEGASIS" /\ pc # "start" =>
          /\ Len(chain) = Cardinality(SensorIds)
          /\ Range(chain) = SensorIds
          /\ \A k \in 1..Len(rounds) : rounds[k].chain = chain)
  /\ [][alg = "PEGASIS" /\ pc # "start" => chain' = chain]_vars

\* two rounds are recorded of a chain that is not in list order
C7_Witness ==
  /\ alg = "PEGASIS"
  /\ Len(rounds) >= 2
  /\ Len(chain) >= 3
  /\ chain # [k \in 1..Len(SensorNodes) |-> SensorNodes[k].id]

\* C8: without a node of type 'base', both simulators fail with an error and
\* produce no result.
C8_NoBaseFails == (pc = "done" /\ ~HasBase) => ~Returned

\* C9: with rounds zero, or initialEnergy, transmitEnergy, receiveEnergy or
\* dataSize not positive, both simulators fail with an error before the
\* first round and return no result.
C9_BadConfigRejected ==
  (\/ config.rounds = 0
   \/ config.initialEnergy <= 0
   \/ config.transmitEnergy <= 0
   \/ config.receiveEnergy <= 0
   \/ config.dataSize <= 0)
  => (rounds = <<>> /\ ~Returned)

\* the runs of C10: initialEnergy 0, one base station and only sensors
\* besides, at least one round
ScenarioC ==
  /\ config.initialEnergy = 0
  /\ config.rounds >= 1
  /\ Cardinality(NodeIds \ SensorIds) = 1

\* C10 as stated: in scenario C round 1 reports nodesAlive = 1 and the
\* networkLifetime is 1.
C10_BaseCountedAlive ==
  (ScenarioC /\ Returned) =>
    /\ Len(rounds) >= 1
    /\ rounds[1].roundNumber = 1
    /\ rounds[1].nodesAlive = 1
    /\ metrics.networkLifetime = 1

\* C10 as amended: in scenario C round 1 reports nodesAlive = 0, the base
\* station having no energy either, and the networkLifetime is 1.
C10_NobodyAlive ==
  (ScenarioC /\ Returned) =>
    /\ Len(rounds) >= 1
    /\ rounds[1].roundNumber = 1
    /\ rounds[1].nodesAlive = 0
    /\ metrics.networkLifetime = 1

\* a run of scenario C with two sensors returned
C10_Witness ==
  /\ ScenarioC
  /\ Returned
  /\ Cardinality(SensorIds) >= 2
  /\ Len(rounds) >= 1

\* the non-base nodes with remaining energy > 0
LiveSensorIds == { id \in SensorIds : id \in DOMAIN nodeEnergy /\ nodeEnergy[id] > 0 }

\* a step of the rounds loop of simulateLEACH with probabilityThreshold 0,
\* taken while a non-base node has energy left
FallbackRound ==
  /\ alg = "LEACH" /\ pc = "loop"
  /\ round <= config.rounds
  /\ config.probabilityThreshold = 0
  /\ LiveSensorIds # {}

\* the step ends with exactly one head, a live non-base node
OneFallbackHead ==
  /\ pc' = "round"
  /\ Len(clusterHeads') = 1
  /\ clusterHeads'[1] \in LiveSensorIds

\* C11 as stated: with probabilityThreshold 0, every round of simulateLEACH
\* that starts with a live non-base node has exactly one cluster head, a
\* live non-base node.
C11_OneHeadEveryRound == [][FallbackRound => OneFallbackHead]_vars

\* C11 as amended: with probabilityThreshold 0, every round of simulateLEACH
\* that is run (no node was counted dead in an earlier round) and starts
\* with a live non-base node has exactly one cluster head, a live non-base
\* node.
C11_OneHeadEveryRunRound == [][(FallbackRound /\ ~networkDied) => OneFallbackHead]_vars

\* the second round has begun with a fallback head that is not the first
\* of two live non-base nodes
C11_Witness ==
  /\ alg = "LEACH" /\ pc = "round"
  /\ config.probabilityThreshold = 0
  /\ round = 2
  /\ i = 1 /\ j = 1
  /\ Cardinality(LiveSensorIds) >= 2
  /\ Len(clusterHeads) = 1
  /\ clusterHeads[1] # AvailableNodes[1]

\* C12: a returned run in which no node's remaining energy reached 0 has
\* networkLifetime = config.rounds and a log of the rounds 1..config.rounds,
\* each with nodesAlive equal to the number of nodes.
C12_FullLifetime ==
  (Returned /\ \A id \in DOMAIN nodeEnergy : nodeEnergy[id] > 0) =>
    /\ metrics.networkLifetime = config.rounds
    /\ Len(rounds) = config.rounds
    /\ \A k \in 1..Len(rounds) :
         rounds[k].roundNumber = k /\ rounds[k].nodesAlive = Len(nodes)

\* a run of MaxRounds rounds on a base station and sensors returned with
\* energy spent and every node alive
C12_Witness ==
  /\ Returned
  /\ config.rounds = MaxRounds
  /\ HasBase /\ Cardinality(SensorIds) >= 2
  /\ \A id \in DOMAIN nodeEnergy : nodeEnergy[id] > 0
  /\ \E id \in DOMAIN nodeEnergy : nodeEnergy[id] < 50 * config.initialEnergy

\* the runs of C13: simulatePEGASIS on one base station and one sensor
ScenarioB ==
  /\ alg = "PEGASIS"
  /\ Len(nodes) = 2
  /\ Cardinality(SensorIds) = 1

TheSensor == CHOOSE id \in SensorIds : TRUE

\* te * (ds * 0.8) * (1 + 0.2 * d) for the sensor's distance to the base
SensorToBaseCost ==
  config.transmitEnergy * config.dataSize * 8
    * (5 + calculateDistance(NodeById(TheSensor).position, BaseStation.position))

\* the usage of a round of scenario B: nothing, or the sensor's one message
\* to the base
OnlyLeaderCost(eu) == eu = EmptyMap \/ eu = (TheSensor :> SensorToBaseCost)

\* the sum of the usage of the first k recorded rounds and of the round
\* that is running
RECURSIVE UsedBySensor(_)
UsedBySensor(k) ==
  IF k = 0
  THEN (IF TheSensor \in DOMAIN energyUsage /\ pc \in {"relay", "bookkeeping"}
        THEN energyUsage[TheSensor] ELSE 0)
  ELSE UsedBySensor(k - 1)
       + (IF TheSensor \in DOMAIN rounds[k].energyUsage
          THEN rounds[k].energyUsage[TheSensor] ELSE 0)

\* C13: in simulatePEGASIS on one base station and one sensor the chain is
\* [sensorId], the leader of every round is the sensor, the relay loops run
\* no iteration, and the only energy charged in a round is the sensor's
\* leader-to-base transmit cost.
C13_SingleSensor ==
  (ScenarioB /\ pc # "start") =>
    /\ chain = <<TheSensor>>
    /\ pc \in {"relay", "bookkeeping"} => leader = TheSensor
    /\ pc = "relay" => (i >= LeaderIndex /\ j <= LeaderIndex)
    /\ pc \in {"relay", "bookkeeping"} => OnlyLeaderCost(energyUsage)
    /\ \A k \in 1..Len(rounds) :
         /\ rounds[k].leader = TheSensor
         /\ OnlyLeaderCost(rounds[k].energyUsage)
    /\ nodeEnergy[TheSensor] = 50 * config.initialEnergy - UsedBySensor(Len(rounds))
    /\ nodeEnergy[BaseStation.id] = 50 * config.initialEnergy

\* two rounds are recorded in which the sensor, chosen by its energy, paid
\* for its message to a base station that is not where it is
C13_Witness ==
  /\ ScenarioB
  /\ config.leaderSelectionMethod = "energyBased"
  /\ Len(rounds) >= 2
  /\ NodeById(TheSensor).position # BaseStation.position
  /\ \A k \in 1..Len(rounds) :
       TheSensor \in DOMAIN rounds[k].energyUsage /\ rounds[k].energyUsage[TheSensor] > 0

\* the calls that returned: the earlier ones and the one that just did
ReturnedCalls ==
  results \o (IF Returned
              THEN <<[alg |-> alg, config |-> config, rounds |-> rounds, metrics |-> metrics]>>
              ELSE <<>>)

\* the two logs record the same random choices: the same heads in every
\* round they both have (a PEGASIS run makes no random choice)
SameChoices(a, b) ==
  a.alg = "LEACH" =>
    \A k \in 1..Len(a.rounds) :
      k <= Len(b.rounds) => a.rounds[k].clusterHeads = b.rounds[k].clusterHeads

\* a call has just run its declarations: what it reads before it writes is
\* what a call on its own starts with
FreshStart ==
  (pc = "loop" /\ round = 1) =>
    /\ nodeEnergy = [id \in NodeIds |-> 50 * config.initialEnergy]
    /\ rounds = <<>>
    /\ totalEnergyConsumption = 0
    /\ dataDelivered = 0
    /\ ~networkDied
    /\ networkLifetime = config.rounds

\* C14: no step of a call, and no step between two calls, changes the node
\* list; every call starts from the state a call on its own starts from; and
\* two calls of the same simulator on the same snapshot with the same
\* config, one run first and one run after the other simulator, return the
\* same rounds and metrics when they made the same random choices.
C14_RunsIndependent ==
  /\ [](FreshStart
        /\ \A a \in 1..Len(ReturnedCalls) : \A b \in 1..Len(ReturnedCalls) :
             LET x == ReturnedCalls[a]
                 y == ReturnedCalls[b]
             IN (x.alg = y.alg /\ x.config = y.config /\ SameChoices(x, y)) =>
                  (x.rounds = y.rounds /\ x.metrics = y.metrics))
  /\ [][nodes' = nodes]_vars

\* LEACH, PEGASIS and LEACH again have returned on a base station and two
\* sensors, every call spent energy, a node died in the PEGASIS call, and
\* both LEACH calls chose the same heads
C14_Witness ==
  /\ Returned
  /\ Len(results) = 2
  /\ alg = "LEACH"
  /\ config.probabilityThreshold = 0
  /\ HasBase /\ Cardinality(SensorIds) >= 2
  /\ \A k \in 1..2 : results[k].metrics.energyConsumption > 0
  /\ results[2].metrics.networkLifetime < results[2].config.rounds
  /\ Len(rounds) >= 1
  /\ SameChoices(results[1], ReturnedCalls[3])

BaseIds == NodeIds \ SensorIds

\* the ids that are a member of some head in the map cm
MemberIds(cm) == UNION { Range(cm[h]) : h \in DOMAIN cm }

\* the ids that have a part in the entry of the log: heads, members, chain
\* elements, leader, and the keys of energyUsage
IdsInRound(r) ==
  DOMAIN r.energyUsage
    \cup (IF alg = "LEACH"
          THEN Range(r.clusterHeads) \cup DOMAIN r.clusterMembers \cup MemberIds(r.clusterMembers)
          ELSE Range(r.chain) \cup {r.leader})

\* C15: the base station's remaining energy is initialEnergy in every state
\* of a run, and the base id is never a key of energyUsage, a cluster head,
\* a cluster member, a chain element or the leader, in the running round or
\* in the log.
C15_BaseSpendsNothing ==
  \A b \in BaseIds :
    /\ b \in DOMAIN nodeEnergy => nodeEnergy[b] = 50 * config.initialEnergy
    /\ b \notin DOMAIN energyUsage
    /\ b \notin Range(clusterHeads) \cup DOMAIN clusterMembers \cup MemberIds(clusterMembers)
    /\ b \notin Range(chain) \cup {leader}
    /\ \A k \in 1..Len(rounds) : b \notin IdsInRound(rounds[k])

\* two rounds that used energy are recorded of a list whose base station
\* is not its first node
C15_Witness ==
  /\ HasBase
  /\ nodes[1].type # "base"
  /\ Len(rounds) >= 2
  /\ \A k \in 1..Len(rounds) : LogEnergy(k) > LogEnergy(k - 1)

\* the head whose turn it is to send to the base station has no energy left
DeadHeadTurn ==
  /\ alg = "LEACH" /\ pc = "round"
  /\ i > Len(MemberPairs(1))
  /\ j <= Len(clusterHeads)
  /\ HasBase
  /\ nodeEnergy[clusterHeads[j]] <= 0

\* C16: a LEACH cluster head whose remaining energy is <= 0 after the
\* member-to-head phase is charged no head-to-base cost and adds no
\* aggregated data to the round's dataTransmitted.
C16_DeadHeadSilent ==
  [][DeadHeadTurn =>
       /\ nodeEnergy' = nodeEnergy
       /\ energyUsage' = energyUsage
       /\ roundDataTransmitted' = roundDataTransmitted]_vars

\* what the round has charged the node so far; -1 when it has no entry
UsageOf(eu, id) == IF id \in DOMAIN eu THEN eu[id] ELSE 0 - 1

\* C17: once a node's remaining energy is <= 0 no later step of the run
\* changes its remaining energy or its energyUsage entry.
C17_DeadNodeInert ==
  [][\A id \in DOMAIN nodeEnergy :
       nodeEnergy[id] <= 0 =>
         /\ nodeEnergy'[id] = nodeEnergy[id]
         /\ UsageOf(energyUsage', id) = UsageOf(energyUsage, id)]_vars

\* C18: after the round in which a node was first counted dead, no step
\* of the run changes a node's remaining energy, the energy consumption,
\* the data delivered or the network lifetime, and the returned metrics
\* carry the totals of that round.
C18_DeadRoundsNoOp ==
  [][networkDied =>
       /\ nodeEnergy' = nodeEnergy
       /\ totalEnergyConsumption' = totalEnergyConsumption
       /\ dataDelivered' = dataDelivered
       /\ networkLifetime' = networkLifetime
       /\ (result' = "returned" =>
             /\ metrics'.energyConsumption = totalEnergyConsumption
             /\ metrics'.dataDelivered = dataDelivered
             /\ metrics'.networkLifetime = networkLifetime)]_vars

\* a run returned that skipped a round while a non-base node had energy
C18_Witness ==
  /\ Returned
  /\ networkDied
  /\ metrics.networkLifetime < config.rounds
  /\ metrics.energyConsumption > 0
  /\ LiveSensorIds # {}

\* the distance the assignment compares: from the node to the head
DistanceToHead(id, headId) ==
  calculateDistance(NodeById(id).position, NodeById(headId).position)

\* how often the id occurs in the sequence
Occurrences(seq, id) == Cardinality({ m \in 1..Len(seq) : seq[m] = id })

\* the election and the assignment of a LEACH round are done and nothing
\* is charged yet
RoundAssigned == alg = "LEACH" /\ pc = "round" /\ i = 1 /\ j = 1

\* C19: in a LEACH round with a head, every live non-base node that is not
\* a head is once in the member list of exactly one head, no head is nearer
\* to it, and every head earlier in clusterHeads is farther from it.
C19_NearestHeadFirst ==
  (RoundAssigned /\ Len(clusterHeads) >= 1) =>
    \A id \in LiveSensorIds \ Range(clusterHeads) :
      \E k \in 1..Len(clusterHeads) :
        /\ Occurrences(clusterMembers[clusterHeads[k]], id) = 1
        /\ \A l \in 1..Len(clusterHeads) :
             /\ l # k => Occurrences(clusterMembers[clusterHeads[l]], id) = 0
             /\ DistanceToHead(id, clusterHeads[k]) <= DistanceToHead(id, clusterHeads[l])
             /\ l < k => DistanceToHead(id, clusterHeads[k]) < DistanceToHead(id, clusterHeads[l])

\* a round with two heads at different distances from a node that is a
\* member of the second one
C19_Witness ==
  /\ RoundAssigned
  /\ Len(clusterHeads) >= 2
  /\ \E id \in LiveSensorIds \ Range(clusterHeads) :
       /\ Occurrences(clusterMembers[clusterHeads[2]], id) = 1
       /\ DistanceToHead(id, clusterHeads[2]) < DistanceToHead(id, clusterHeads[1])

\* C20: with leaderSelectionMethod roundRobin and a chain that is not
\* empty, the leader recorded for round r is chain[(r - 1) mod chain.length].
C20_RoundRobin ==
  (alg = "PEGASIS" /\ config.leaderSelectionMethod = "roundRobin") =>
    \A k \in 1..Len(rounds) :
      LET r == rounds[k]
      IN Len(r.chain) > 0 =>
           r.leader = r.chain[((r.roundNumber - 1) % Len(r.chain)) + 1]

\* two rounds are recorded of a round-robin run on a chain of two or more
C20_Witness ==
  /\ alg = "PEGASIS"
  /\ config.leaderSelectionMethod = "roundRobin"
  /\ Len(chain) >= 2
  /\ Len(rounds) >= 2
  /\ rounds[2].leader # rounds[1].leader

\* a PEGASIS round has chosen its leader and no hop is made yet
LeaderChosen ==
  alg = "PEGASIS" /\ pc = "relay" /\ i = 1 /\ j = Len(chain)

\* C21 as stated: with leaderSelectionMethod energyBased the leader of a
\* round is a chain member, no chain member has more remaining energy at
\* the start of the round, and every chain member before it has less.
C21_FirstMaxEnergy ==
  (LeaderChosen /\ config.leaderSelectionMethod = "energyBased") =>
    /\ leader \in Range(chain)
    /\ \A k \in 1..Len(chain) :
         /\ nodeEnergy[chain[k]] <= nodeEnergy[leader]
         /\ k < LeaderIndex => nodeEnergy[chain[k]] < nodeEnergy[leader]

\* C21 as amended: the same for a chain that is not empty; with an empty
\* chain the leader is undefined.
C21_FirstMaxEnergyOfChain ==
  (LeaderChosen /\ config.leaderSelectionMethod = "energyBased") =>
    IF chain = <<>>
    THEN leader = NoId
    ELSE /\ leader \in Range(chain)
         /\ \A k \in 1..Len(chain) :
              /\ nodeEnergy[chain[k]] <= nodeEnergy[leader]
              /\ k < LeaderIndex => nodeEnergy[chain[k]] < nodeEnergy[leader]

\* the second round starts with a leader that is not the first of the
\* chain, the first one having less energy left
C21_Witness ==
  /\ LeaderChosen
  /\ config.leaderSelectionMethod = "energyBased"
  /\ round = 2
  /\ Len(chain) >= 2
  /\ leader # chain[1]
  /\ nodeEnergy[chain[1]] < nodeEnergy[leader]

\* a hop of a relay loop is next
RelayTurn ==
  /\ alg = "PEGASIS" /\ pc = "relay"
  /\ i < LeaderIndex \/ j > LeaderIndex

HopSender == IF i < LeaderIndex THEN chain[i] ELSE chain[j]

HopReceiver == IF i < LeaderIndex THEN chain[i + 1] ELSE chain[j - 1]

\* energyUsage[id] || 0
Used(eu, id) == IF id \in DOMAIN eu THEN eu[id] ELSE 0

\* the step charges exactly the costs of the map charge (id -> cost) to
\* the ledger and to the usage of the round
Charges(charge) ==
  /\ DOMAIN nodeEnergy' = DOMAIN nodeEnergy
  /\ DOMAIN energyUsage' = DOMAIN energyUsage \cup DOMAIN charge
  /\ \A id \in DOMAIN nodeEnergy :
       /\ nodeEnergy'[id] = nodeEnergy[id] - Used(charge, id)
       /\ Used(energyUsage', id) = Used(energyUsage, id) + Used(charge, id)

\* C22: a relay hop charges nothing and counts no data when the sender's
\* remaining energy is <= 0; charges the sender its transmit cost only and
\* counts no data when the sender is alive and the receiver's remaining
\* energy is <= 0; otherwise charges the sender its transmit cost and the
\* receiver its receive cost and counts dataSize.
C22_RelayHopCases ==
  [][RelayTurn =>
       LET s == HopSender
           r == HopReceiver
           transmit == config.transmitEnergy * config.dataSize
                         * (50 + 5 * calculateDistance(NodeById(s).position,
                                                       NodeById(r).position))
           receive == config.receiveEnergy * config.dataSize * 50
       IN IF nodeEnergy[s] <= 0
          THEN Charges(EmptyMap) /\ roundDataTransmitted' = roundDataTransmitted
          ELSE IF nodeEnergy[r] <= 0
          THEN Charges(s :> transmit) /\ roundDataTransmitted' = roundDataTransmitted
          ELSE /\ Charges((s :> transmit) @@ (r :> receive))
               /\ roundDataTransmitted' = roundDataTransmitted + 10 * config.dataSize]_vars

\* both relay loops are done; the leader, in the middle of the chain, was
\* emptied by the message from its left, and the node on its right paid
\* for a message the leader was not charged for
C22_Witness ==
  /\ alg = "PEGASIS" /\ pc = "relay"
  /\ LeaderIndex >= 2 /\ LeaderIndex < Len(chain)
  /\ i >= LeaderIndex /\ j <= LeaderIndex
  /\ config.transmitEnergy > 0 /\ config.receiveEnergy > 0 /\ config.dataSize > 0
  /\ nodeEnergy[leader] <= 0
  /\ Used(energyUsage, leader) = config.receiveEnergy * config.dataSize * 50
  /\ Used(energyUsage, chain[LeaderIndex + 1]) > 0

\* the relay loops of the round are done
LeaderTurn ==
  /\ alg = "PEGASIS" /\ pc = "relay"
  /\ i >= LeaderIndex /\ j <= LeaderIndex

\* C23: after the relay phase the leader-to-base step is performed if and
\* only if the leader's remaining energy is > 0; when performed it charges
\* the leader only and adds 0.8 * dataSize to the round's data, and when
\* not performed it changes nothing.
C23_LeaderSendsIffAlive ==
  [][LeaderTurn =>
       IF leader # NoId /\ nodeEnergy[leader] > 0
       THEN /\ roundDataTransmitted' = roundDataTransmitted + 8 * config.dataSize
            /\ leader \in DOMAIN energyUsage'
            /\ \A id \in DOMAIN nodeEnergy \ {leader} :
                 /\ nodeEnergy'[id] = nodeEnergy[id]
                 /\ Used(energyUsage', id) = Used(energyUsage, id)
       ELSE /\ nodeEnergy' = nodeEnergy
            /\ energyUsage' = energyUsage
            /\ roundDataTransmitted' = roundDataTransmitted]_vars

\* a node list with a base station and no other node
BaseOnly == HasBase /\ SensorIds = {}

\* C24: on a node list with a base station and no non-base node neither
\* simulator raises an error, and every recorded round has an empty
\* clusterHeads (LEACH) or an empty chain (PEGASIS), dataTransmitted 0 and
\* an empty energyUsage.
C24_BaseOnlyRuns ==
  BaseOnly =>
    /\ result # "TypeError"
    /\ pc = "done" => Returned
    /\ \A k \in 1..Len(rounds) :
         /\ IF alg = "LEACH"
            THEN rounds[k].clusterHeads = <<>> /\ rounds[k].clusterMembers = EmptyMap
            ELSE rounds[k].chain = <<>>
         /\ rounds[k].dataTransmitted = 0
         /\ rounds[k].energyUsage = EmptyMap

\* a LEACH run on a base station alone returned with MaxRounds rounds
\* recorded
C24_Witness ==
  /\ BaseOnly
  /\ alg = "LEACH"
  /\ Returned
  /\ config.initialEnergy > 0
  /\ Len(rounds) = MaxRounds

\* calculateDistance(from, to) of two nodes
DistanceFrom(fromId, toId) ==
  calculateDistance(NodeById(fromId).position, NodeById(toId).position)

\* the place of the node in the input list
InputIndex(id) == CHOOSE k \in 1..Len(nodes) : nodes[k].id = id

RECURSIVE RecordedUsage(_, _)
RecordedUsage(id, k) ==
  IF k = 0 THEN 0 ELSE RecordedUsage(id, k - 1) + Used(rounds[k].energyUsage, id)

\* C26: when a run returns, for every node initialEnergy minus its
\* remaining energy is the sum of its energyUsage entries over the log.
C26_NodeEnergyConserved ==
  Returned =>
    \A id \in NodeIds :
      50 * config.initialEnergy - nodeEnergy[id] = RecordedUsage(id, Len(rounds))

\* a run returned with two rounds that both charged one node, and another
\* node that was charged a different sum
C26_Witness ==
  /\ Returned
  /\ Len(rounds) >= 2
  /\ \E id \in NodeIds :
       /\ Used(rounds[1].energyUsage, id) > 0
       /\ Used(rounds[2].energyUsage, id) > 0
       /\ \E other \in SensorIds :
            /\ RecordedUsage(other, Len(rounds)) > 0
            /\ RecordedUsage(other, Len(rounds)) # RecordedUsage(id, Len(rounds))

NoRepeat(seq) == \A a \in 1..Len(seq) : \A b \in 1..Len(seq) : seq[a] = seq[b] => a = b

\* C28: in a LEACH round the heads and the members of the clusters are
\* pairwise disjoint sets of nodes that are live and not the base at the
\* start of the round, the keys of clusterMembers are the heads, and when
\* a live non-base node exists every live non-base node is a head or a
\* member.
C28_ClustersPartition ==
  RoundAssigned =>
    /\ NoRepeat(clusterHeads)
    /\ DOMAIN clusterMembers = Range(clusterHeads)
    /\ \A h \in DOMAIN clusterMembers :
         /\ NoRepeat(clusterMembers[h])
         /\ Range(clusterMembers[h]) \cap Range(clusterHeads) = {}
         /\ \A g \in DOMAIN clusterMembers \ {h} :
              Range(clusterMembers[h]) \cap Range(clusterMembers[g]) = {}
    /\ Range(clusterHeads) \cup MemberIds(clusterMembers) \subseteq LiveSensorIds
    /\ LiveSensorIds # {} =>
         Range(clusterHeads) \cup MemberIds(clusterMembers) = LiveSensorIds

\* a round of three live non-base nodes with two heads and a member
C28_Witness ==
  /\ RoundAssigned
  /\ Cardinality(LiveSensorIds) = 3
  /\ Len(clusterHeads) = 2
  /\ MemberIds(clusterMembers) # {}

C30_Playback ==
  /\ [][tick => (isSimulating /\ currentRound < maxRounds
                   /\ currentRound' = currentRound + 1)]_vars
  /\ [][currentRound' > currentRound => tick]_vars
  /\ [](isSimulating => currentRound <= maxRounds)
  /\ [][(isSimulating /\ ~isSimulating' /\ ~pauseSimulation /\ ~resetSimulation)
          => currentRound' = maxRounds]_vars
  /\ (isSimulating ~> ~isSimulating)

====
